---- MODULE Spec2Model ----
(***************************************************************************)
(* Model of auto-syntax-fixer (src/app.py): the Language Classifier, the   *)
(* Heuristic Rule Engine, the External Formatter Bridge and the Batch      *)
(* Processor with its running statistics.                                  *)
(*                                                                         *)
(* Text is a sequence of one-character strings, so that the regular        *)
(* expressions of the source are modelled character by character.          *)
(***************************************************************************)
EXTENDS Integers, Sequences, FiniteSets, TLC

(***************************************************************************)
(* Characters and the character classes of Python's re module.             *)
(***************************************************************************)
NL == "\n"

Whitespace == {" ", "\t", "\n", "\r"}

Digits == {"0", "1", "2", "3", "4", "5", "6", "7", "8", "9"}

Letters ==
    {"a", "b", "c", "d", "e", "f", "g", "h", "i", "j", "k", "l", "m",
     "n", "o", "p", "q", "r", "s", "t", "u", "v", "w", "x", "y", "z",
     "A", "B", "C", "D", "E", "F", "G", "H", "I", "J", "K", "L", "M",
     "N", "O", "P", "Q", "R", "S", "T", "U", "V", "W", "X", "Y", "Z"}

WordChars == Letters \cup Digits \cup {"_"}

IsSpace(c) == c \in Whitespace

IsWord(c) == c \in WordChars

(***************************************************************************)
(* Sequence helpers: slices, str.strip / rstrip / lstrip, split and join.  *)
(***************************************************************************)
Slice(s, a, b) == IF a > b THEN << >> ELSE SubSeq(s, a, b)

StartsAt(s, p, w) ==
    /\ p >= 1
    /\ p + Len(w) - 1 <= Len(s)
    /\ \A i \in 1..Len(w) : s[p + i - 1] = w[i]

AllSpace(s, a, b) == \A i \in a..b : IsSpace(s[i])

\* index of the last non-whitespace character, 0 when there is none
LastNonSpace(s) ==
    LET I == {i \in 1..Len(s) : ~IsSpace(s[i])}
    IN  IF I = {} THEN 0 ELSE CHOOSE i \in I : \A j \in I : j <= i

\* index of the first non-whitespace character, Len(s)+1 when there is none
FirstNonSpace(s) ==
    LET I == {i \in 1..Len(s) : ~IsSpace(s[i])}
    IN  IF I = {} THEN Len(s) + 1 ELSE CHOOSE i \in I : \A j \in I : i <= j

RStrip(s) == Slice(s, 1, LastNonSpace(s))

LStrip(s) == Slice(s, FirstNonSpace(s), Len(s))

Strip(s) == Slice(s, FirstNonSpace(s), LastNonSpace(s))

\* content.split('\n'): always at least one (possibly empty) line
RECURSIVE Split(_)
Split(s) ==
    LET I == {i \in 1..Len(s) : s[i] = NL}
    IN  IF I = {} THEN <<s>>
        ELSE LET k == CHOOSE i \in I : \A j \in I : i <= j
             IN  <<Slice(s, 1, k - 1)>> \o Split(Slice(s, k + 1, Len(s)))

\* '\n'.join(lines)
RECURSIVE Join(_)
Join(ls) ==
    IF Len(ls) = 0 THEN << >>
    ELSE IF Len(ls) = 1 THEN ls[1]
    ELSE ls[1] \o <<NL>> \o Join(Tail(ls))

RECURSIVE Concat(_)
Concat(ss) == IF Len(ss) = 0 THEN << >> ELSE ss[1] \o Concat(Tail(ss))

(***************************************************************************)
(* Keywords of the patterns, as character sequences.                       *)
(***************************************************************************)
kw_if == <<"i", "f">>
kw_elif == <<"e", "l", "i", "f">>
kw_else == <<"e", "l", "s", "e">>
kw_for == <<"f", "o", "r">>
kw_while == <<"w", "h", "i", "l", "e">>
kw_def == <<"d", "e", "f">>
kw_class == <<"c", "l", "a", "s", "s">>
kw_try == <<"t", "r", "y">>
kw_except == <<"e", "x", "c", "e", "p", "t">>
kw_finally == <<"f", "i", "n", "a", "l", "l", "y">>
kw_with == <<"w", "i", "t", "h">>
kw_print == <<"p", "r", "i", "n", "t">>
kw_var == <<"v", "a", "r">>
kw_const == <<"c", "o", "n", "s", "t">>
kw_import == <<"i", "m", "p", "o", "r", "t">>
Indent4 == <<" ", " ", " ", " ">>

(***************************************************************************)
(* SyntaxAnalyzer.fix_patterns['python']                                   *)
(***************************************************************************)
ColonKeywords ==
    {kw_if, kw_elif, kw_else, kw_for, kw_while, kw_def, kw_class, kw_try,
     kw_except, kw_finally, kw_with}

\* re.search(r'(if|elif|...|with)\s+[^:]*$', line)
missing_colon_pattern(line) ==
    \E p \in 1..Len(line), k \in ColonKeywords :
        /\ StartsAt(line, p, k)
        /\ p + Len(k) <= Len(line)
        /\ IsSpace(line[p + Len(k)])
        /\ \A q \in (p + Len(k))..Len(line) : line[q] # ":"

\* lambda line: line.rstrip() + ':'
missing_colon_fix(line) == RStrip(line) \o <<":">>

\* re.search(r'print\s+[^(].*[^)]$', line)
print_parentheses_pattern(line) ==
    \E p \in 1..Len(line) :
        /\ StartsAt(line, p, kw_print)
        /\ \E q \in (p + 6)..(Len(line) - 1) :
              /\ AllSpace(line, p + 5, q - 1)
              /\ line[q] # "("
        /\ line[Len(line)] # ")"

\* re.sub(r'print\s+(.+)', r'print(\1)', line)
print_parentheses_fix(line) ==
    LET P == {p \in 1..Len(line) :
                 /\ StartsAt(line, p, kw_print)
                 /\ p + 6 <= Len(line)
                 /\ IsSpace(line[p + 5])}
    IN  IF P = {} THEN line
        ELSE LET p == CHOOSE x \in P : \A y \in P : x <= y
                 N == {i \in (p + 5)..Len(line) : ~IsSpace(line[i])}
                 \* \s+ is greedy; when only whitespace follows, it gives
                 \* back its last character to (.+)
                 g == IF N = {} THEN Len(line)
                      ELSE CHOOSE i \in N : \A j \in N : i <= j
             IN  Slice(line, 1, p - 1) \o kw_print \o <<"(">>
                 \o Slice(line, g, Len(line)) \o <<")">>

\* re.search(r'^\s*(\S.*)', line)
indentation_pattern(line) == \E i \in 1..Len(line) : ~IsSpace(line[i])

IndentKeywords ==
    {kw_class, kw_def, kw_if, kw_for, kw_while, kw_try, kw_except,
     kw_finally, kw_with}

DedentKeywords == {kw_elif, kw_else, kw_except, kw_finally}

\* SyntaxAnalyzer._fix_python_indentation
fix_python_indentation(line) ==
    IF Strip(line) # << >>
    THEN IF \E k \in IndentKeywords : StartsAt(line, FirstNonSpace(line), k)
         THEN Indent4 \o Strip(line)
         ELSE IF \E k \in DedentKeywords :
                     StartsAt(line, FirstNonSpace(line), k)
         THEN Strip(line)
         ELSE Indent4 \o Strip(line)
    ELSE line

(***************************************************************************)
(* SyntaxAnalyzer.fix_patterns['javascript']                               *)
(***************************************************************************)
\* re.search(r'[^;{}\s]$', line)
missing_semicolon_pattern(line) ==
    /\ Len(line) >= 1
    /\ line[Len(line)] \notin ({";", "{", "}"} \cup Whitespace)

\* lambda line: line.rstrip() + ';'
missing_semicolon_fix(line) == RStrip(line) \o <<";">>

\* end of the maximal run of characters of class C that starts at a
\* (a - 1 when line[a] is not in C)
RunEnd(line, a, C) ==
    LET E == {e \in (a - 1)..Len(line) :
                 /\ \A i \in a..e : line[i] \in C
                 /\ (e = Len(line) \/ line[e + 1] \notin C)}
    IN  CHOOSE e \in E : TRUE

\* re.search(r'var\s+(\w+)\s*=\s*["\'\d\[\{]', line)
var_to_const_pattern(line) ==
    \E p \in 1..Len(line) :
        /\ StartsAt(line, p, kw_var)
        /\ LET s1 == RunEnd(line, p + 3, Whitespace)
               w1 == RunEnd(line, s1 + 1, WordChars)
               s2 == RunEnd(line, w1 + 1, Whitespace)
               s3 == RunEnd(line, s2 + 2, Whitespace)
           IN  /\ s1 >= p + 3
               /\ w1 >= s1 + 1
               /\ s2 + 1 <= Len(line)
               /\ line[s2 + 1] = "="
               /\ s3 + 1 <= Len(line)
               /\ line[s3 + 1] \in ({"\"", "'", "[", "{"} \cup Digits)

\* re.sub(r'var\s+', 'const ', line): every non-overlapping occurrence
RECURSIVE SubVar(_, _)
SubVar(line, from) ==
    IF from > Len(line) THEN << >>
    ELSE IF /\ StartsAt(line, from, kw_var)
            /\ from + 3 <= Len(line)
            /\ IsSpace(line[from + 3])
         THEN kw_const \o <<" ">>
              \o SubVar(line, RunEnd(line, from + 3, Whitespace) + 1)
         ELSE <<line[from]>> \o SubVar(line, from + 1)

var_to_const_fix(line) == SubVar(line, 1)

\* length of the match of r'([^=!])===?([^=])' that starts at p, 0 for none
DoubleEqualsAt(line, p) ==
    IF /\ p + 3 <= Len(line)
       /\ line[p] \notin {"=", "!"}
       /\ line[p + 1] = "="
       /\ line[p + 2] = "="
    THEN IF line[p + 3] = "=" /\ p + 4 <= Len(line) /\ line[p + 4] # "="
         THEN 5
         ELSE IF line[p + 3] # "=" THEN 4 ELSE 0
    ELSE 0

\* re.search(r'([^=!])===?([^=])', line)
double_equals_pattern(line) ==
    \E p \in 1..Len(line) : DoubleEqualsAt(line, p) > 0

\* re.sub(r'([^=!])===?([^=])', r'\1===\2', line)
RECURSIVE SubEquals(_, _)
SubEquals(line, from) ==
    IF from > Len(line) THEN << >>
    ELSE LET n == DoubleEqualsAt(line, from)
         IN  IF n > 0
             THEN <<line[from], "=", "=", "=", line[from + n - 1]>>
                  \o SubEquals(line, from + n)
             ELSE <<line[from]>> \o SubEquals(line, from + 1)

double_equals_fix(line) == SubEquals(line, 1)

(***************************************************************************)
(* SyntaxAnalyzer.fix_patterns['go']                                       *)
(***************************************************************************)
\* re.search(r'import\s+"[^"]*"\s*$', line)
unused_import_pattern(line) ==
    \E p \in 1..Len(line) :
        /\ StartsAt(line, p, kw_import)
        /\ LET s1 == RunEnd(line, p + 6, Whitespace)
           IN  /\ s1 >= p + 6
               /\ s1 + 1 <= Len(line)
               /\ line[s1 + 1] = "\""
               /\ \E b \in (s1 + 2)..Len(line) :
                     /\ line[b] = "\""
                     /\ \A i \in (s1 + 2)..(b - 1) : line[i] # "\""
                     /\ AllSpace(line, b + 1, Len(line))

\* SyntaxAnalyzer._fix_go_imports
fix_go_imports(line) == line

\* index of the last word character of the match of r'(\w+)\s*{\s*$',
\* 0 when the line does not match
GofmtWordEnd(line) ==
    LET b == LastNonSpace(line)
    IN  IF b >= 2 /\ line[b] = "{"
        THEN LET c == LastNonSpace(Slice(line, 1, b - 1))
             IN  IF c >= 1 /\ IsWord(line[c]) THEN c ELSE 0
        ELSE 0

\* re.search(r'(\w+)\s*{\s*$', line)
gofmt_spacing_pattern(line) == GofmtWordEnd(line) > 0

\* re.sub(r'(\w+)\s*{\s*$', r'\1 {', line)
gofmt_spacing_fix(line) ==
    IF GofmtWordEnd(line) > 0
    THEN Slice(line, 1, GofmtWordEnd(line)) \o <<" ", "{">>
    ELSE line

(***************************************************************************)
(* The rule table: SyntaxAnalyzer.fix_patterns, each language's rules in   *)
(* the order of the dict, which is the order of evaluation.                *)
(***************************************************************************)
fix_patterns(language) ==
    CASE language = "python" ->
             <<"missing_colon", "print_parentheses", "indentation">>
      [] language = "javascript" ->
             <<"missing_semicolon", "var_to_const", "double_equals">>
      [] language = "go" -> <<"unused_import", "gofmt_spacing">>
      [] OTHER -> << >>

RuleLanguages == {"python", "javascript", "go"}

\* re.search(fix_config['pattern'], line)
Pattern(rule, line) ==
    CASE rule = "missing_colon" -> missing_colon_pattern(line)
      [] rule = "print_parentheses" -> print_parentheses_pattern(line)
      [] rule = "indentation" -> indentation_pattern(line)
      [] rule = "missing_semicolon" -> missing_semicolon_pattern(line)
      [] rule = "var_to_const" -> var_to_const_pattern(line)
      [] rule = "double_equals" -> double_equals_pattern(line)
      [] rule = "unused_import" -> unused_import_pattern(line)
      [] rule = "gofmt_spacing" -> gofmt_spacing_pattern(line)

\* fix_config['fix'](line)
Fix(rule, line) ==
    CASE rule = "missing_colon" -> missing_colon_fix(line)
      [] rule = "print_parentheses" -> print_parentheses_fix(line)
      [] rule = "indentation" -> fix_python_indentation(line)
      [] rule = "missing_semicolon" -> missing_semicolon_fix(line)
      [] rule = "var_to_const" -> var_to_const_fix(line)
      [] rule = "double_equals" -> double_equals_fix(line)
      [] rule = "unused_import" -> fix_go_imports(line)
      [] rule = "gofmt_spacing" -> gofmt_spacing_fix(line)

\* fix_config['description']
Description(rule) ==
    CASE rule = "missing_colon" -> "Missing colon"
      [] rule = "print_parentheses" -> "Print statement needs parentheses"
      [] rule = "indentation" -> "Indentation error"
      [] rule = "missing_semicolon" -> "Missing semicolon"
      [] rule = "var_to_const" -> "Use const instead of var"
      [] rule = "double_equals" -> "Use strict equality"
      [] rule = "unused_import" -> "Unused import"
      [] rule = "gofmt_spacing" -> "Go formatting"

\* f"Line {i+1}: {fix_config['description']}"
IssueString(i, rule) == <<"Line ", i, ": ", Description(rule)>>

\* f"Fixed {fix_name} on line {i+1}"
FixString(i, rule) == <<"Fixed ", rule, " on line ", i>>

IsIssueString(x) == Len(x) = 4 /\ x[1] = "Line "

IsFixString(x) == Len(x) = 4 /\ x[1] = "Fixed "

(***************************************************************************)
(* One pass of the inner loop of analyze_syntax_errors over line i.  Every *)
(* rule is searched in, and its fix applied to, the loop variable `line`,  *)
(* which the assignments to lines[i] never change.                         *)
(***************************************************************************)
\* the rules that match `line`, in rule order
MatchingRules(language, line) ==
    SelectSeq(fix_patterns(language), LAMBDA r : Pattern(r, line))

\* the rules whose fix changes `line`, in rule order
ChangingRules(language, line) ==
    SelectSeq(MatchingRules(language, line), LAMBDA r : Fix(r, line) # line)

\* lines[i] if each rule were searched in, and applied to, the text the
\* rules before it left
FixedLine_chained(language, line) ==
    LET rules == fix_patterns(language)
        step(n, l) == IF n <= Len(rules) /\ Pattern(rules[n], l)
                      THEN Fix(rules[n], l) ELSE l
    IN  step(3, step(2, step(1, line)))

\* lines[i] after the inner loop: the last assignment wins
FixedLine(language, line) ==
    LET ch == ChangingRules(language, line)
    IN  IF Len(ch) = 0 THEN line ELSE Fix(ch[Len(ch)], line)

LineErrors(language, i, line) ==
    LET m == MatchingRules(language, line)
    IN  [k \in 1..Len(m) |-> IssueString(i, m[k])]

LineFixes(language, i, line) ==
    LET ch == ChangingRules(language, line)
    IN  [k \in 1..Len(ch) |-> FixString(i, ch[k])]

\* errors_found after the outer loop
errors_found(content, language) ==
    LET lines == Split(content)
    IN  Concat([i \in 1..Len(lines) |-> LineErrors(language, i, lines[i])])

\* fixes_applied after the outer loop
rule_fixes_applied(content, language) ==
    LET lines == Split(content)
    IN  Concat([i \in 1..Len(lines) |-> LineFixes(language, i, lines[i])])

\* fixed_content = '\n'.join(lines)
fixed_content(content, language) ==
    LET lines == Split(content)
    IN  Join([i \in 1..Len(lines) |-> FixedLine(language, lines[i])])

\* the uncached body of analyze_syntax_errors: (errors_found + fixes_applied,
\* fixed_content), or ([], content) for a language without a rule set
analyze_result(content, language) ==
    IF language \notin RuleLanguages
    THEN [list |-> << >>, content |-> content]
    ELSE [list |-> errors_found(content, language)
                     \o rule_fixes_applied(content, language),
          content |-> fixed_content(content, language)]

(***************************************************************************)
(* Paths.  A path is the sequence of its components (Path.parts), each a   *)
(* sequence of characters; the last component is Path.name.                *)
(***************************************************************************)
PathName(path) == path[Len(path)]

\* Path.suffix: from the last '.' of the name, unless it leads or ends it
Suffix(path) ==
    LET name == PathName(path)
        D == {i \in 1..Len(name) : name[i] = "."}
    IN  IF D = {} THEN << >>
        ELSE LET i == CHOOSE x \in D : \A y \in D : y <= x
             IN  IF 1 < i /\ i < Len(name)
                 THEN Slice(name, i, Len(name)) ELSE << >>

UpperToLower ==
    [c \in {"A", "B", "C", "D", "E", "F", "G", "H", "I", "J", "K", "L", "M",
            "N", "O", "P", "Q", "R", "S", "T", "U", "V", "W", "X", "Y", "Z"}
     |-> CASE c = "A" -> "a" [] c = "B" -> "b" [] c = "C" -> "c"
           [] c = "D" -> "d" [] c = "E" -> "e" [] c = "F" -> "f"
           [] c = "G" -> "g" [] c = "H" -> "h" [] c = "I" -> "i"
           [] c = "J" -> "j" [] c = "K" -> "k" [] c = "L" -> "l"
           [] c = "M" -> "m" [] c = "N" -> "n" [] c = "O" -> "o"
           [] c = "P" -> "p" [] c = "Q" -> "q" [] c = "R" -> "r"
           [] c = "S" -> "s" [] c = "T" -> "t" [] c = "U" -> "u"
           [] c = "V" -> "v" [] c = "W" -> "w" [] c = "X" -> "x"
           [] c = "Y" -> "y" [] c = "Z" -> "z"]

\* str.lower()
Lower(s) ==
    [i \in 1..Len(s) |->
        IF s[i] \in DOMAIN UpperToLower THEN UpperToLower[s[i]] ELSE s[i]]

(***************************************************************************)
(* LanguageDetector                                                        *)
(***************************************************************************)
\* LanguageDetector.extension_map
extension_map ==
    (<<".", "p", "y">> :> "python")
    @@ (<<".", "j", "s">> :> "javascript")
    @@ (<<".", "j", "s", "x">> :> "javascript")
    @@ (<<".", "t", "s">> :> "typescript")
    @@ (<<".", "t", "s", "x">> :> "typescript")
    @@ (<<".", "g", "o">> :> "go")
    @@ (<<".", "r", "s">> :> "rust")
    @@ (<<".", "j", "a", "v", "a">> :> "java")
    @@ (<<".", "c", "p", "p">> :> "cpp")
    @@ (<<".", "c", "c">> :> "cpp")
    @@ (<<".", "c", "x", "x">> :> "cpp")
    @@ (<<".", "c">> :> "c")
    @@ (<<".", "h">> :> "c")
    @@ (<<".", "h", "p", "p">> :> "cpp")

\* a match of ^\s*kw under re.MULTILINE that has kw at position p: p is
\* reached from the start of a line over whitespace only
KwAtLineStart(content, p, kw) ==
    /\ StartsAt(content, p, kw)
    /\ \E b \in 1..p :
          /\ (b = 1 \/ content[b - 1] = NL)
          /\ AllSpace(content, b, p - 1)

\* re.search(r'^\s*kw\s+', content, re.MULTILINE)
SigKwSpace(content, kw) ==
    \E p \in 1..Len(content) :
        /\ KwAtLineStart(content, p, kw)
        /\ p + Len(kw) <= Len(content)
        /\ IsSpace(content[p + Len(kw)])

\* re.search(r'^\s*kw\s+tail', content, re.MULTILINE)
SigKwSpaceThen(content, kw, tail) ==
    \E p \in 1..Len(content) :
        /\ KwAtLineStart(content, p, kw)
        /\ \E q \in (p + Len(kw) + 1)..Len(content) :
              /\ AllSpace(content, p + Len(kw), q - 1)
              /\ StartsAt(content, q, tail)

\* re.search(r'^\s*from\s+.+import', content, re.MULTILINE)
SigFromImport(content) ==
    \E p \in 1..Len(content) :
        /\ KwAtLineStart(content, p, <<"f", "r", "o", "m">>)
        /\ \E j \in (p + 4)..Len(content), q \in 1..Len(content) :
              /\ AllSpace(content, p + 4, j)
              /\ q >= j + 2
              /\ \A i \in (j + 1)..(q - 1) : content[i] # NL
              /\ StartsAt(content, q, kw_import)

\* re.search(r'require\(', content, re.MULTILINE)
SigRequire(content) ==
    \E p \in 1..Len(content) :
        StartsAt(content, p, <<"r", "e", "q", "u", "i", "r", "e", "(">>)

kw_package == <<"p", "a", "c", "k", "a", "g", "e">>

\* LanguageDetector.content_patterns, in the order of the dict
ContentLanguages == <<"python", "javascript", "go", "rust", "java">>

\* sum(1 for pattern in patterns if re.search(pattern, content, re.MULTILINE))
Bit(b) == IF b THEN 1 ELSE 0

SignatureMatches(lang, content) ==
    CASE lang = "python" ->
             Bit(SigKwSpace(content, kw_def))
             + Bit(SigKwSpace(content, kw_class))
             + Bit(SigKwSpace(content, kw_import))
             + Bit(SigFromImport(content))
      [] lang = "javascript" ->
             Bit(SigKwSpace(content,
                            <<"f", "u", "n", "c", "t", "i", "o", "n">>))
             + Bit(SigKwSpace(content, kw_const))
             + Bit(SigKwSpace(content, <<"l", "e", "t">>))
             + Bit(SigRequire(content))
      [] lang = "go" ->
             Bit(SigKwSpace(content, kw_package))
             + Bit(SigKwSpace(content, <<"f", "u", "n", "c">>))
             + Bit(SigKwSpaceThen(content, kw_import, <<"(">>))
             + Bit(SigKwSpace(content, kw_var))
      [] lang = "rust" ->
             Bit(SigKwSpace(content, <<"f", "n">>))
             + Bit(SigKwSpace(content, <<"p", "u", "b">>))
             + Bit(SigKwSpace(content, <<"u", "s", "e">>))
             + Bit(SigKwSpace(content, <<"s", "t", "r", "u", "c", "t">>))
      [] lang = "java" ->
             Bit(SigKwSpaceThen(content, <<"p", "u", "b", "l", "i", "c">>,
                                kw_class))
             + Bit(SigKwSpace(content, kw_package))
             + Bit(SigKwSpace(content, kw_import))

\* the threshold of detect_language: "if matches >= 2"
MinSignatures == 2

\* the content signatures consulted before the extension
detect_language_content_first(file_path, content) ==
    LET file_ext == Lower(Suffix(file_path))
        hits == SelectSeq(ContentLanguages,
                    LAMBDA l : SignatureMatches(l, content) >= MinSignatures)
    IN  IF content # << >> /\ Len(hits) > 0 THEN hits[1]
        ELSE IF file_ext \in DOMAIN extension_map THEN extension_map[file_ext]
        ELSE "unknown"

\* LanguageDetector.detect_language
detect_language(file_path, content) ==
    LET file_ext == Lower(Suffix(file_path))
        hits == SelectSeq(ContentLanguages,
                    LAMBDA l : SignatureMatches(l, content) >= MinSignatures)
    IN  IF file_ext \in DOMAIN extension_map THEN extension_map[file_ext]
        ELSE IF content # << >> /\ Len(hits) > 0 THEN hits[1]
        ELSE "unknown"

(***************************************************************************)
(* Bounds of the model and the inputs it draws from.                       *)
(***************************************************************************)
\* entries under a repository root
MaxEntries == 2
\* calls of the single-file operation (upload endpoint, CLI)
MaxSingles == 1
\* calls of fix_repository
MaxBatches == 1
\* seconds the clock read by int(time.time()) may advance
MaxClock == 1
\* external tools found available at start-up
MaxAvailable == 1
\* unexpected exceptions injected into units of work
MaxCrashes == 1

\* statistics updates in a row
MaxUpdates == 3

\* child processes that end, and units of work that complete, in the batch
\* over more files than the worker limit
MaxWideExits == 1
MaxWideDone == 1

\* lines of a text given to detect_language
MaxSigLines == 3
\* calls of detect_language on one input
MaxCalls == 2

\* chunks of text a Rule Engine input is made of
MaxChunks == 3
\* successive Rule Engine passes over one text
MaxPasses == 2

\* processing-time samples, in milliseconds (time.time() differences)
Samples == {10, 20}

ToolNames == {"black", "autopep8", "isort"}

c_if_x == <<"i", "f", " ", "x", " ", ">", " ", "0">>
c_var == <<"v", "a", "r", " ", "x", " ", "=", " ", "5">>
c_import == <<"i", "m", "p", "o", "r", "t", " ", "\"", "f", "\"">>
c_empty == << >>
c_rust == <<"f", "n", " ", "m">>
c_prose == <<"h", "i">>

n_a_py == <<"a", ".", "p", "y">>

node_modules == <<"n", "o", "d", "e", "_", "m", "o", "d", "u", "l", "e", "s">>

pycache == <<"_", "_", "p", "y", "c", "a", "c", "h", "e", "_", "_">>

Entry(path, is_file, readable, content) ==
    [path |-> path, is_file |-> is_file, readable |-> readable,
     content |-> content]

\* what rglob('*') may yield under a root, paths relative to the root
Catalog ==
    << Entry(<< <<"s">>, n_a_py >>, TRUE, TRUE, c_if_x),
       Entry(<< <<"t">>, n_a_py >>, TRUE, TRUE, c_empty),
       Entry(<< <<"u", ".", "p", "y">> >>, TRUE, TRUE, c_if_x),
       Entry(<< <<"c", ".", "G", "O">> >>, TRUE, TRUE, c_import),
       Entry(<< <<"e", ".", "p", "y">> >>, TRUE, FALSE, c_empty),
       Entry(<< <<"q", ".", "r", "s">> >>, TRUE, TRUE, c_rust),
       Entry(<< <<".", "g">>, <<"h", ".", "p", "y">> >>, TRUE, TRUE, c_if_x),
       Entry(<< node_modules, <<"m", ".", "j", "s">> >>, TRUE, TRUE, c_var),
       Entry(<< pycache, <<"k", ".", "p", "y">> >>, TRUE, TRUE, c_if_x),
       Entry(<< <<"n", ".", "m", "d">> >>, TRUE, TRUE, c_prose),
       Entry(<< <<"f", ".", "h", "p", "p">> >>, TRUE, TRUE, c_prose),
       Entry(<< <<"p", ".", "p", "y">> >>, FALSE, FALSE, c_empty) >>

\* the directory listings of at most MaxEntries entries, in catalog order
RECURSIVE Listings(_, _)
Listings(from, n) ==
    IF n = 0 \/ from > Len(Catalog) THEN {<< >>}
    ELSE Listings(from + 1, n)
         \cup {<<Catalog[from]>> \o l : l \in Listings(from + 1, n - 1)}

RootPath == << <<"r">> >>

Repo(kind, entries) == [kind |-> kind, root |-> RootPath, entries |-> entries]

\* a root that is one existing file with a supported extension
FileRootPath == << <<"r", ".", "p", "y">> >>

FileRepo == [kind |-> "file", root |-> FileRootPath, entries |-> << >>]

\* the roots fix_repository is called with: a missing path, a single file,
\* or a directory with a listing
Repos ==
    {Repo("missing", << >>), FileRepo}
    \cup {Repo("dir", l) : l \in Listings(1, MaxEntries)}

\* the (file name, content) pairs the single-file operation is called with
Uploads ==
    { [file_path |-> << <<"y">> >>, content |-> c_prose],
      [file_path |-> << <<"b", ".", "j", "s">> >>, content |-> c_var] }

c_print == <<"p", "r", "i", "n", "t", " ", "x", " ", "y">>
c_equals == <<"a", " ", "=", "=", " ", "b">>
c_brace == <<"f", " ", " ", "{">>

\* the chunks the inputs of the Rule Engine are concatenated from
Chunks(language) ==
    CASE language = "python" ->
             {c_if_x, c_print, Indent4, <<":">>, <<"x">>, <<NL>>}
      [] language = "javascript" ->
             {c_var, c_equals, <<";">>, <<" ">>, <<"x">>, <<NL>>}
      [] language = "go" ->
             {c_import, c_brace, <<" ">>, <<"x">>, <<"}">>, <<NL>>}

RECURSIVE ChunkTexts(_, _)
ChunkTexts(language, n) ==
    IF n = 0 THEN {<< >>}
    ELSE ChunkTexts(language, n - 1)
         \cup {c \o x : c \in Chunks(language),
                        x \in ChunkTexts(language, n - 1)}

(***************************************************************************)
(* Numbers.  The floats of the statistics are modelled as exact fractions  *)
(* <<numerator, denominator>> in lowest terms.                             *)
(***************************************************************************)
RECURSIVE GCD(_, _)
GCD(a, b) == IF b = 0 THEN a ELSE GCD(b, a % b)

Frac(n, d) == LET g == GCD(n, d) IN <<n \div g, d \div g>>

FracAdd(x, y) == Frac(x[1] * y[2] + y[1] * x[2], x[2] * y[2])

FracMul(x, y) == Frac(x[1] * y[1], x[2] * y[2])

FracDiv(x, n) == Frac(x[1], x[2] * n)

(***************************************************************************)
(* State.                                                                  *)
(***************************************************************************)
VARIABLES
    available_tools,  \* ShellChampion.available_tools, probed at start-up
    stats,            \* AutoSyntaxFixerILN3.stats
    samples,          \* the processing times (ms) the statistics were fed
    pattern_cache,    \* SyntaxAnalyzer.pattern_cache
    tasks,            \* the invocations of fix_file_content, in creation order
    procs,            \* the child processes execute_tool has spawned
    tempfiles,        \* the files that exist in ShellChampion.temp_dir
    now,              \* int(time.time()) when it was last read
    batch,            \* the invocation of fix_repository
    returned,         \* the list the last fix_repository call returned
    returned_src,     \* for each returned result, the file it came from
    completion,       \* the tasks in the order their processing completed
    singles,          \* calls of the single-file operation so far
    crashes,          \* unexpected exceptions injected so far
    engine,           \* a caller that feeds the Rule Engine its own output
    detector          \* a caller of detect_language and what it got

vars ==
    <<available_tools, stats, samples, pattern_cache, tasks, procs,
      tempfiles, now, batch, returned, returned_src, completion, singles,
      crashes, engine, detector>>

(***************************************************************************)
(* FixResult and the strings it carries.                                   *)
(***************************************************************************)
FixResult(file_path, original_errors, fixes_applied, success, language, processing_time, tool_used) ==
    [file_path |-> file_path, original_errors |-> original_errors,
     fixes_applied |-> fixes_applied, success |-> success,
     language |-> language, processing_time |-> processing_time,
     tool_used |-> tool_used]

DefaultToolUsed == "ILN_Auto_Syntax_Fixer"

NoResult == FixResult(<< >>, << >>, << >>, FALSE, "", 0, "none")

UnknownPath == << <<"u", "n", "k", "n", "o", "w", "n">> >>

ToolNotAvailable(tool) == <<"Tool ", tool, " not available">>

ExternalMarker == <<"Applied external tool formatting">>

\* the FixResult of fix_file_content for an unclassified file
UnknownTypeResult(file_path) ==
    FixResult(file_path, << <<"Unknown file type">> >>, << >>, FALSE,
              "unknown", 0, DefaultToolUsed)
\* (its processing_time, the time the classification took, is below the
\* resolution of the model)

\* the single FixResult of fix_repository for a missing root
MissingRootResult(root) ==
    FixResult(root, << <<"Repository path does not exist">> >>, << >>,
              FALSE, "unknown", 0, DefaultToolUsed)

\* nothing discovered reported as a success without any entry
NoFilesResult_as_success(root) ==
    FixResult(root, << >>, << >>, TRUE, "unknown", 0, DefaultToolUsed)

\* the single FixResult of fix_repository when nothing was discovered
NoFilesResult(root) ==
    FixResult(root, << <<"No supported files found">> >>, << >>, FALSE,
              "unknown", 0, DefaultToolUsed)

\* the FixResult of fix_repository for a file that cannot be read
ReadErrorResult(file_path) ==
    FixResult(file_path, << <<"Cannot read file: ", "error">> >>, << >>,
              FALSE, "unknown", 0, DefaultToolUsed)

\* the FixResult of fix_repository for a task that raised
ProcessingErrorResult ==
    FixResult(UnknownPath, << <<"Processing error: ", "error">> >>, << >>,
              FALSE, "unknown", 0, DefaultToolUsed)

(***************************************************************************)
(* fix_file_content: the pure parts.                                       *)
(***************************************************************************)
\* tool_mapping.get(language, [])
tool_mapping(language) ==
    IF language = "python" THEN <<"black", "autopep8", "isort">> ELSE << >>

\* the whole analysis list taken as errors, then the diagnostics
all_errors_unsplit(analysis_result, shell_errors) ==
    analysis_result \o shell_errors

\* all_errors = analysis_result[:len(analysis_result)//2], then the
\* external-tool diagnostics
all_errors(analysis_result, shell_errors) ==
    Slice(analysis_result, 1, Len(analysis_result) \div 2) \o shell_errors

\* all_fixes = analysis_result[len(analysis_result)//2:], then the marker
all_fixes(analysis_result, shell_success) ==
    Slice(analysis_result, Len(analysis_result) \div 2 + 1,
          Len(analysis_result))
    \o (IF shell_success THEN <<ExternalMarker>> ELSE << >>)

\* success only when a fix was applied
success_flag_fixes_only(fixes, errors) == Len(fixes) > 0

\* success=len(all_fixes) > 0 or len(all_errors) == 0
success_flag(fixes, errors) == Len(fixes) > 0 \/ Len(errors) = 0

\* self.stats as __init__ leaves it
FreshStats ==
    [files_processed |-> 0, total_fixes |-> 0,
     success_rate |-> <<0, 1>>, avg_processing_time |-> <<0, 1>>]

\* the average taken as the mean of the previous average and the new sample
updated_stats_halving(st, nfixes, ms) ==
    LET n == st.files_processed + 1
        total == st.total_fixes + nfixes
    IN  [files_processed |-> n,
         total_fixes |-> total,
         success_rate |-> Frac(total * 100, n),
         avg_processing_time |->
             IF n = 1 THEN Frac(ms, 1)
             ELSE FracDiv(FracAdd(st.avg_processing_time, Frac(ms, 1)), 2)]

\* the counters incremented, the rate and the average left as they were
updated_stats_counters_only(st, nfixes, ms) ==
    [st EXCEPT !.files_processed = @ + 1, !.total_fixes = @ + nfixes]

\* the statistics after one more file with `nfixes` fixes that took `ms`
updated_stats(st, nfixes, ms) ==
    LET n == st.files_processed + 1
        total == st.total_fixes + nfixes
    IN  [files_processed |-> n,
         total_fixes |-> total,
         success_rate |-> Frac(total * 100, n),
         avg_processing_time |->
             IF n = 1 THEN Frac(ms, 1)
             ELSE FracDiv(FracAdd(FracMul(st.avg_processing_time,
                                          Frac(n - 1, 1)),
                                  Frac(ms, 1)), n)]

\* the FixResult fix_file_content builds at its end
FinalResult(t, ms) ==
    LET errs == all_errors(t.analysis_result, t.shell_errors)
        fixes == all_fixes(t.analysis_result, t.shell_success)
    IN  FixResult(t.file_path, errs, fixes, success_flag(fixes, errs),
                  t.language, ms,
                  IF t.shell_success THEN "ILN_Level3_with_shell"
                  ELSE "ILN_Level3_internal")

(***************************************************************************)
(* Temporary files, child processes, the rule-result cache.                *)
(***************************************************************************)
NoFile == <<-1, << >>>>

FileExists(tf, path) == \E f \in tf : f.path = path

ReadFile(tf, path) == (CHOOSE f \in tf : f.path = path).content

RemoveFile(tf, path) == {f \in tf : f.path # path}

WriteFile(tf, path, content) ==
    RemoveFile(tf, path) \cup {[path |-> path, content |-> content]}

\* os.path.join(self.temp_dir, f"temp_{int(time.time())}_{Path(file_path).name}")
temp_file_name(second, file_path) == <<second, PathName(file_path)>>

\* what a formatter leaves in the file it rewrites: the text, newline-ended
Formatted(content) ==
    IF content # << >> /\ content[Len(content)] = NL THEN content
    ELSE content \o <<NL>>

\* how a child process may end: with exit status 0 and its file rewritten,
\* or with another status and lines on its stderr
\* (stderr.decode().split('\n'))
ToolOutcomes ==
    { [returncode |-> 0, stderr |-> << >>, rewrite |-> TRUE],
      [returncode |-> 1,
       stderr |-> << <<"stderr: ", "error">>, <<"stderr: ", "">> >>,
       rewrite |-> FALSE] }

\* the cache key f"{language}_{md5(content)}": md5 is injective on the
\* contents of the model
CacheHit(cache, content, language) ==
    \E e \in cache : e.language = language /\ e.content = content

CacheGet(cache, content, language) ==
    (CHOOSE e \in cache : e.language = language /\ e.content = content).result

\* the result computed on every call and never stored
analyze_syntax_errors_never_stored(content, language, cache) ==
    [result |-> analyze_result(content, language), cache |-> cache]

\* SyntaxAnalyzer.analyze_syntax_errors: the result and the cache after it
analyze_syntax_errors(content, language, cache) ==
    IF language \notin RuleLanguages
    THEN [result |-> analyze_result(content, language), cache |-> cache]
    ELSE IF CacheHit(cache, content, language)
    THEN [result |-> CacheGet(cache, content, language), cache |-> cache]
    ELSE [result |-> analyze_result(content, language),
          cache |-> cache \cup {[language |-> language, content |-> content,
                                 result |-> analyze_result(content, language)]}]

(***************************************************************************)
(* fix_file_content as a coroutine.  It runs without suspension from its   *)
(* start to the first await that waits for a child process, and from the   *)
(* end of one such wait to the next or to its return.                      *)
(***************************************************************************)
NewTask(origin, file_path, content) ==
    [origin |-> origin, file_path |-> file_path, content |-> content,
     pc |-> "created", language |-> "", analysis_result |-> << >>,
     corrected_content |-> << >>, tool |-> 0, shell_errors |-> << >>,
     shell_success |-> FALSE, temp_file |-> NoFile, proc |-> 0,
     result |-> NoResult]

Put(i, t) == IF i = Len(tasks) + 1 THEN Append(tasks, t)
             ELSE [tasks EXCEPT ![i] = t]

\* the first tool from index idx on that execute_tool does not refuse,
\* Len(tools) + 1 when there is none
NextAvailable(tools, idx) ==
    LET A == {j \in idx..Len(tools) : available_tools[tools[j]]}
    IN  IF A = {} THEN Len(tools) + 1
        ELSE CHOOSE j \in A : \A k \in A : j <= k

\* execute_tool up to its first await: the temporary file is written and
\* the child process started
Spawn(i, t, k, tf) ==
    \E second \in now..MaxClock :
    LET temp == temp_file_name(second, t.file_path)
    IN  /\ now' = second
        /\ tempfiles' = WriteFile(tf, temp, t.corrected_content)
        /\ procs' = Append(procs, [temp_file |-> temp, running |-> TRUE,
                                   input |-> t.corrected_content,
                                   returncode |-> 0, stderr |-> << >>])
        /\ tasks' = Put(i, [t EXCEPT !.pc = "waiting", !.tool = k,
                                     !.temp_file = temp,
                                     !.proc = Len(procs) + 1])
        /\ UNCHANGED <<stats, samples, completion>>

\* the end of fix_file_content: the statistics update and the FixResult
Finish(i, t, tf) ==
    \E ms \in Samples :
        /\ tasks' = Put(i, [t EXCEPT !.pc = "done",
                                     !.result = FinalResult(t, ms)])
        /\ stats' = updated_stats(stats,
                                  Len(FinalResult(t, ms).fixes_applied), ms)
        /\ samples' = Append(samples, ms)
        /\ completion' = Append(completion, i)
        /\ tempfiles' = tf
        /\ UNCHANGED <<procs, now>>

\* the loop "for tool in tools_for_lang" from tool index idx on: the tools
\* that are not available fail at once, the first available one is started
Continue(i, t, idx, tf) ==
    LET tools == tool_mapping(t.language)
        k == NextAvailable(tools, idx)
        refused == [j \in 1..(k - idx) |-> ToolNotAvailable(tools[idx + j - 1])]
        t1 == [t EXCEPT !.shell_errors = t.shell_errors \o refused]
    IN  IF k <= Len(tools) THEN Spawn(i, t1, k, tf) ELSE Finish(i, t1, tf)

\* fix_file_content from its first line
Begin(i, t0) ==
    LET language == detect_language(t0.file_path, t0.content)
    IN  IF language = "unknown"
        THEN /\ tasks' = Put(i, [t0 EXCEPT
                                   !.pc = "done", !.language = language,
                                   !.result = UnknownTypeResult(t0.file_path)])
             /\ completion' = Append(completion, i)
             /\ UNCHANGED <<stats, samples, pattern_cache, procs, tempfiles, now>>
        ELSE LET a == analyze_syntax_errors(t0.content, language,
                                            pattern_cache)
             IN  /\ pattern_cache' = a.cache
                 /\ Continue(i, [t0 EXCEPT
                                   !.language = language,
                                   !.analysis_result = a.result.list,
                                   !.corrected_content = a.result.content],
                             1, tempfiles)

(***************************************************************************)
(* fix_repository: discovery.                                              *)
(***************************************************************************)
supported_extensions ==
    { <<".", "p", "y">>, <<".", "j", "s">>, <<".", "j", "s", "x">>,
      <<".", "t", "s">>, <<".", "t", "s", "x">>, <<".", "g", "o">>,
      <<".", "r", "s">>, <<".", "j", "a", "v", "a">>, <<".", "c", "p", "p">>,
      <<".", "c", "c">>, <<".", "c", "x", "x">>, <<".", "c">>, <<".", "h">> }

HasPart(path, part) == \E i \in 1..Len(path) : path[i] = part

\* the condition under which the discovery loop keeps a path
Eligible(path, is_file) ==
    /\ is_file
    /\ Lower(Suffix(path)) \in supported_extensions
    /\ ~\E i \in 1..Len(path) : Len(path[i]) >= 1 /\ path[i][1] = "."
    /\ ~HasPart(path, node_modules)
    /\ ~HasPart(path, pycache)

\* repo_path.rglob('*'): nothing unless the root is a directory
Rglob(repo) ==
    IF repo.kind = "dir"
    THEN [k \in 1..Len(repo.entries) |->
             [repo.entries[k] EXCEPT !.path = repo.root \o @]]
    ELSE << >>

\* max_workers = min(8, len(files_to_process))
WorkerLimit == 8

max_workers(files) ==
    IF WorkerLimit < Len(files) THEN WorkerLimit ELSE Len(files)

\* files_to_process
Discover(repo) ==
    SelectSeq(Rglob(repo), LAMBDA e : Eligible(e.path, e.is_file))

\* every discovered file taken as readable
Readable_all(files) == files

Readable(files) == SelectSeq(files, LAMBDA e : e.readable)

Unreadable(files) == SelectSeq(files, LAMBDA e : ~e.readable)

IdleBatch ==
    [pc |-> "idle", n |-> 0, kind |-> "", root |-> << >>,
     files_to_process |-> << >>, results |-> << >>, first |-> 0, ntasks |-> 0]

BatchTasks == (batch.first + 1)..(batch.first + batch.ntasks)

\* some invocation of fix_file_content has not returned yet
InFlight == \E i \in 1..Len(tasks) : tasks[i].pc \in {"created", "waiting"}

EngineAt(language, content) ==
    [language |-> language, content |-> content, prev |-> content,
     list |-> << >>, passes |-> 0]

IdleEngine == EngineAt("", << >>)

DetectorAt(file_path, content) ==
    [file_path |-> file_path, content |-> content, language |-> "",
     prev |-> "", calls |-> 0]

IdleDetector == DetectorAt(<< >>, << >>)

(***************************************************************************)
(* Actions.                                                                *)
(***************************************************************************)
Init ==
    /\ available_tools \in
          {a \in [ToolNames -> BOOLEAN] :
              Cardinality({x \in ToolNames : a[x]}) <= MaxAvailable}
    /\ stats = FreshStats
    /\ samples = << >>
    /\ pattern_cache = {}
    /\ tasks = << >>
    /\ procs = << >>
    /\ tempfiles = {}
    /\ now = 0
    /\ batch = IdleBatch
    /\ returned = << >>
    /\ returned_src = << >>
    /\ completion = << >>
    /\ singles = 0
    /\ crashes = 0
    /\ engine = IdleEngine
    /\ detector = IdleDetector

\* fix_repository from its call to its first await (asyncio.gather), or
\* to its return when it does not get that far.  The model serves one
\* request at a time.
BatchStart(repo) ==
    /\ batch.pc \in {"idle", "returned"}
    /\ ~InFlight
    /\ batch.n < MaxBatches
    /\ LET files == Discover(repo)
           bad == Unreadable(files)
           good == Readable(files)
           results == [k \in 1..Len(bad) |-> ReadErrorResult(bad[k].path)]
           b == [batch EXCEPT !.n = @ + 1, !.kind = repo.kind,
                              !.root = repo.root,
                              !.files_to_process = files,
                              !.results = results, !.first = Len(tasks),
                              !.ntasks = Len(good)]
       IN  IF repo.kind = "missing"
           THEN /\ returned' = <<MissingRootResult(repo.root)>>
                /\ returned_src' = <<repo.root>>
                /\ batch' = [b EXCEPT !.pc = "returned",
                                      !.files_to_process = << >>,
                                      !.results = << >>, !.ntasks = 0]
                /\ UNCHANGED tasks
           ELSE IF Len(files) = 0
           THEN /\ returned' = <<NoFilesResult(repo.root)>>
                /\ returned_src' = <<repo.root>>
                /\ batch' = [b EXCEPT !.pc = "returned"]
                /\ UNCHANGED tasks
           ELSE IF Len(good) = 0
           THEN /\ returned' = results
                /\ returned_src' = [k \in 1..Len(bad) |-> bad[k].path]
                /\ batch' = [b EXCEPT !.pc = "returned"]
                /\ UNCHANGED tasks
           ELSE /\ tasks' = tasks \o
                       [k \in 1..Len(good) |->
                           NewTask("batch", good[k].path, good[k].content)]
                /\ batch' = [b EXCEPT !.pc = "gather"]
                /\ UNCHANGED <<returned, returned_src>>
    /\ UNCHANGED <<available_tools, stats, samples, pattern_cache, procs, tempfiles,
                   now, completion, singles, crashes, engine,
      detector>>

\* the event loop runs the first step of a task created by create_task;
\* the tasks start in the order of their creation
TaskRun(i) ==
    /\ tasks[i].pc = "created"
    /\ \A j \in 1..(i - 1) : tasks[j].pc # "created"
    /\ Begin(i, tasks[i])
    /\ UNCHANGED <<available_tools, batch, returned, returned_src,
                   singles, crashes, engine,
      detector>>

\* a unit of work ends with an unexpected exception instead
TaskCrash(i) ==
    /\ tasks[i].pc = "created"
    /\ \A j \in 1..(i - 1) : tasks[j].pc # "created"
    /\ crashes < MaxCrashes
    /\ tasks' = [tasks EXCEPT ![i].pc = "raised"]
    /\ completion' = Append(completion, i)
    /\ crashes' = crashes + 1
    /\ UNCHANGED <<available_tools, stats, samples, pattern_cache, procs, tempfiles,
                   now, batch, returned, returned_src, singles, engine,
      detector>>

\* the single-file operation: fix_file_content awaited by its caller.  The
\* model serves one request at a time: the concurrency it explores is that
\* of the tasks of one batch.
SingleCall(u) ==
    /\ singles < MaxSingles
    /\ batch.pc \in {"idle", "returned"}
    /\ ~InFlight
    /\ singles' = singles + 1
    /\ Begin(Len(tasks) + 1, NewTask("single", u.file_path, u.content))
    /\ UNCHANGED <<available_tools, batch, returned, returned_src,
                   crashes, engine,
      detector>>

\* a child process ends.  A formatter that succeeds writes its output to
\* the path it was given, whether or not the file is still there
ProcExit(p) ==
    /\ procs[p].running
    /\ \E o \in ToolOutcomes :
          /\ procs' = [procs EXCEPT ![p].running = FALSE,
                                    ![p].returncode = o.returncode,
                                    ![p].stderr = o.stderr]
          /\ tempfiles' =
                IF o.rewrite
                THEN WriteFile(tempfiles, procs[p].temp_file,
                         Formatted(IF FileExists(tempfiles, procs[p].temp_file)
                                   THEN ReadFile(tempfiles, procs[p].temp_file)
                                   ELSE procs[p].input))
                ELSE tempfiles
    /\ UNCHANGED <<available_tools, stats, samples, pattern_cache, tasks, now, batch,
                   returned, returned_src, completion, singles, crashes, engine,
      detector>>

\* execute_tool after process.communicate() has returned, and
\* fix_file_content from there to its next await or its end.  A waiting
\* task is resumed in a later iteration of the event loop than the one
\* that starts the created tasks.
TaskResume(i) ==
    /\ tasks[i].pc = "waiting"
    /\ ~procs[tasks[i].proc].running
    /\ \A j \in 1..Len(tasks) : tasks[j].pc # "created"
    /\ LET t == tasks[i]
           pr == procs[t.proc]
           tf == RemoveFile(tempfiles, t.temp_file)
       IN  IF FileExists(tempfiles, t.temp_file)
           THEN IF pr.returncode = 0
                THEN Finish(i, [t EXCEPT !.shell_success = TRUE], tf)
                ELSE Continue(i, [t EXCEPT !.shell_errors = @ \o pr.stderr],
                              t.tool + 1, tf)
           ELSE Continue(i, [t EXCEPT !.shell_errors =
                                   @ \o << <<"Failed to process file">> >>],
                         t.tool + 1, tf)
    /\ UNCHANGED <<available_tools, pattern_cache, batch, returned,
                   returned_src, singles, crashes, engine,
      detector>>

\* asyncio.wait_for gives up on a child process that is still running
TaskTimeout(i) ==
    /\ tasks[i].pc = "waiting"
    /\ procs[tasks[i].proc].running
    /\ \A j \in 1..Len(tasks) : tasks[j].pc # "created"
    /\ Continue(i, [tasks[i] EXCEPT !.shell_errors =
                        @ \o << <<"Tool execution timeout">> >>],
                tasks[i].tool + 1, RemoveFile(tempfiles, tasks[i].temp_file))
    /\ UNCHANGED <<available_tools, pattern_cache, batch, returned,
                   returned_src, singles, crashes, engine,
      detector>>

\* the tasks of the batch in the order their completion would list them
completion_order == SelectSeq(completion, LAMBDA i : i \in BatchTasks)

\* asyncio.gather(*tasks): the outcomes come in the order of the tasks
gather_order == [k \in 1..batch.ntasks |-> batch.first + k]

\* the loop over completed_results with every exception dropped
collected_results_only(i) ==
    IF tasks[i].pc = "done" THEN <<tasks[i].result>> ELSE << >>

\* gather without return_exceptions: one exception leaves no result at all
collected_unless_raised(i) ==
    IF \E j \in BatchTasks : tasks[j].pc = "raised" THEN << >>
    ELSE <<tasks[i].result>>

\* the loop over completed_results: what the outcome of task i appends
collected(i) ==
    IF tasks[i].pc = "done" THEN <<tasks[i].result>>
    ELSE IF tasks[i].pc = "raised" THEN <<ProcessingErrorResult>>
    ELSE << >>

\* asyncio.gather has every task's outcome: fix_repository appends them in
\* the order of the tasks and returns
BatchCollect ==
    /\ batch.pc = "gather"
    /\ \A i \in BatchTasks : tasks[i].pc \in {"done", "raised"}
    /\ returned' = batch.results \o
           Concat([k \in 1..Len(gather_order) |-> collected(gather_order[k])])
    /\ returned_src' =
           [k \in 1..Len(batch.results) |-> batch.results[k].file_path]
           \o Concat([k \in 1..Len(gather_order) |->
                         IF collected(gather_order[k]) = << >> THEN << >>
                         ELSE <<tasks[gather_order[k]].file_path>>])
    /\ batch' = [batch EXCEPT !.pc = "returned"]
    /\ UNCHANGED <<available_tools, stats, samples, pattern_cache, tasks, procs,
                   tempfiles, now, completion, singles, crashes, engine,
      detector>>

Next ==
    \/ \E repo \in Repos : BatchStart(repo)
    \/ \E i \in 1..Len(tasks) : TaskRun(i)
    \/ \E i \in 1..Len(tasks) : TaskCrash(i)
    \/ \E u \in Uploads : SingleCall(u)
    \/ \E p \in 1..Len(procs) : ProcExit(p)
    \/ \E i \in 1..Len(tasks) : TaskResume(i)
    \/ \E i \in 1..Len(tasks) : TaskTimeout(i)
    \/ BatchCollect

Spec == Init /\ [][Next]_vars

(***************************************************************************)
(* The Rule Engine on its own: a caller passes a text through              *)
(* analyze_syntax_errors and then passes the corrected text through again. *)
(***************************************************************************)
InitRule ==
    /\ available_tools = [x \in ToolNames |-> FALSE]
    /\ stats = FreshStats
    /\ samples = << >>
    /\ pattern_cache = {}
    /\ tasks = << >>
    /\ procs = << >>
    /\ tempfiles = {}
    /\ now = 0
    /\ batch = IdleBatch
    /\ returned = << >>
    /\ returned_src = << >>
    /\ completion = << >>
    /\ singles = 0
    /\ crashes = 0
    /\ \E language \in RuleLanguages :
          \E content \in ChunkTexts(language, MaxChunks) :
              engine = EngineAt(language, content)
    /\ detector = IdleDetector

RuleEngineCall ==
    /\ engine.passes < MaxPasses
    /\ LET a == analyze_syntax_errors(engine.content, engine.language,
                                      pattern_cache)
       IN  /\ engine' = [engine EXCEPT !.prev = engine.content,
                                       !.content = a.result.content,
                                       !.list = a.result.list,
                                       !.passes = @ + 1]
           /\ pattern_cache' = a.cache
    /\ UNCHANGED <<available_tools, stats, samples, tasks, procs, tempfiles, now,
                   batch, returned, returned_src, completion, singles,
                   crashes, detector>>

NextRule == RuleEngineCall

SpecRule == InitRule /\ [][NextRule]_vars

(***************************************************************************)
(* The statistics update on its own: a sequence of files, each with a      *)
(* number of fixes and a processing time, goes through the update step of  *)
(* fix_file_content.                                                       *)
(***************************************************************************)
StatSamples == {10, 20, 30}

FixCounts == {0, 1, 2}

InitStats ==
    /\ available_tools = [x \in ToolNames |-> FALSE]
    /\ stats = FreshStats
    /\ samples = << >>
    /\ pattern_cache = {}
    /\ tasks = << >>
    /\ procs = << >>
    /\ tempfiles = {}
    /\ now = 0
    /\ batch = IdleBatch
    /\ returned = << >>
    /\ returned_src = << >>
    /\ completion = << >>
    /\ singles = 0
    /\ crashes = 0
    /\ engine = IdleEngine
    /\ detector = IdleDetector

StatsUpdate ==
    /\ stats.files_processed < MaxUpdates
    /\ \E ms \in StatSamples, nfixes \in FixCounts :
          /\ stats' = updated_stats(stats, nfixes, ms)
          /\ samples' = Append(samples, ms)
    /\ UNCHANGED <<available_tools, pattern_cache, tasks, procs, tempfiles,
                   now, batch, returned, returned_src, completion, singles,
                   crashes, engine,
      detector>>

NextStats == StatsUpdate

SpecStats == InitStats /\ [][NextStats]_vars

(***************************************************************************)
(* A batch over one file more than the worker limit, with a formatter      *)
(* available, followed up to the first child processes that end and the    *)
(* first units of work that complete.                                      *)
(***************************************************************************)
FileDigits == <<"1", "2", "3", "4", "5", "6", "7", "8", "9">>

\* a directory of WorkerLimit + 1 empty Python files 1.py, 2.py, ...
WideRepo ==
    Repo("dir", [k \in 1..(WorkerLimit + 1) |->
                    Entry(<< <<FileDigits[k], ".", "p", "y">> >>,
                          TRUE, TRUE, c_empty)])

InitWide ==
    /\ available_tools = [x \in ToolNames |-> x = "black"]
    /\ stats = FreshStats
    /\ samples = << >>
    /\ pattern_cache = {}
    /\ tasks = << >>
    /\ procs = << >>
    /\ tempfiles = {}
    /\ now = 0
    /\ batch = IdleBatch
    /\ returned = << >>
    /\ returned_src = << >>
    /\ completion = << >>
    /\ singles = 0
    /\ crashes = 0
    /\ engine = IdleEngine
    /\ detector = IdleDetector

Exited == {p \in 1..Len(procs) : ~procs[p].running}

Completed == {i \in 1..Len(tasks) : tasks[i].pc = "done"}

NextWide ==
    \/ BatchStart(WideRepo)
    \/ \E i \in 1..Len(tasks) : TaskRun(i)
    \/ \E p \in 1..Len(procs) :
          Cardinality(Exited) < MaxWideExits /\ ProcExit(p)
    \/ \E i \in 1..Len(tasks) :
          Cardinality(Completed) < MaxWideDone /\ TaskResume(i)
    \/ \E i \in 1..Len(tasks) :
          Cardinality(Completed) < MaxWideDone /\ TaskTimeout(i)

SpecWide == InitWide /\ [][NextWide]_vars

(***************************************************************************)
(* The Language Classifier on its own: a caller passes a file name and a   *)
(* text to detect_language, more than once.                                *)
(***************************************************************************)
\* file names: a known extension in lower, upper and mixed case, the
\* extension the table knows and discovery does not, an unknown extension,
\* none, a dot file, a trailing dot, two dots
DetectNames ==
    { << <<"a", ".", "p", "y">> >>,
      << <<"a", ".", "P", "Y">> >>,
      << <<"m", ".", "G", "o">> >>,
      << <<"f", ".", "h", "p", "p">> >>,
      << <<"n", ".", "m", "d">> >>,
      << <<"y">> >>,
      << <<".", "p", "y">> >>,
      << <<"a", ".">> >>,
      << <<"b", ".", "t", "a", "r", ".", "r", "s">> >> }

\* lines that carry one signature of some language, or none
SigLines ==
    { <<"d", "e", "f", " ", "f">>,
      <<"i", "m", "p", "o", "r", "t", " ", "x">>,
      <<"f", "r", "o", "m", " ", "a", " ", "i", "m", "p", "o", "r", "t", " ", "b">>,
      <<" ", " ", "c", "l", "a", "s", "s", " ", "A">>,
      <<"c", "o", "n", "s", "t", " ", "a">>,
      <<"x", " ", "=", " ", "r", "e", "q", "u", "i", "r", "e", "(", "1", ")">>,
      <<"p", "a", "c", "k", "a", "g", "e", " ", "m">>,
      <<"f", "u", "n", "c", " ", "f">>,
      <<"i", "m", "p", "o", "r", "t", " ", "(">>,
      <<"v", "a", "r", " ", "x">>,
      <<"f", "n", " ", "m">>,
      <<"u", "s", "e", " ", "x">>,
      <<"p", "u", "b", "l", "i", "c", " ", "c", "l", "a", "s", "s", " ", "A">>,
      <<"h", "i">> }

RECURSIVE SigTexts(_)
SigTexts(n) ==
    IF n = 0 THEN {<< >>}
    ELSE SigTexts(n - 1)
         \cup {l : l \in SigLines}
         \cup {t \o <<NL>> \o l : t \in SigTexts(n - 1) \ {<< >>},
                                   l \in SigLines}

InitDetect ==
    /\ available_tools = [x \in ToolNames |-> FALSE]
    /\ stats = FreshStats
    /\ samples = << >>
    /\ pattern_cache = {}
    /\ tasks = << >>
    /\ procs = << >>
    /\ tempfiles = {}
    /\ now = 0
    /\ batch = IdleBatch
    /\ returned = << >>
    /\ returned_src = << >>
    /\ completion = << >>
    /\ singles = 0
    /\ crashes = 0
    /\ engine = IdleEngine
    /\ \E file_path \in DetectNames, content \in SigTexts(MaxSigLines) :
          detector = DetectorAt(file_path, content)

DetectCall ==
    /\ detector.calls < MaxCalls
    /\ detector' = [detector EXCEPT
                       !.prev = detector.language,
                       !.language = detect_language(detector.file_path,
                                                    detector.content),
                       !.calls = @ + 1]
    /\ UNCHANGED <<available_tools, stats, samples, pattern_cache, tasks,
                   procs, tempfiles, now, batch, returned, returned_src,
                   completion, singles, crashes, engine>>

NextDetect == DetectCall

SpecDetect == InitDetect /\ [][NextDetect]_vars

(***************************************************************************)
(* Properties.                                                             *)
(***************************************************************************)
Paths(files) == [k \in 1..Len(files) |-> files[k].path]

Returned == batch.pc = "returned"

\* the tasks whose fix_file_content ran through the Rule Engine and returned
Processed ==
    {i \in 1..Len(tasks) : tasks[i].pc = "done" /\ tasks[i].language # "unknown"}

\* every FixResult there is: those fix_file_content returned and those
\* fix_repository returned
AllResults ==
    {tasks[i].result : i \in {j \in 1..Len(tasks) : tasks[j].pc = "done"}}
    \cup {returned[k] : k \in 1..Len(returned)}

\* task a completed before task b
CompletedBefore(a, b) ==
    \E x, y \in 1..Len(completion) :
        x < y /\ completion[x] = a /\ completion[y] = b

\* C1: a batch over N >= 1 discovered files returns exactly N results, one
\* for each discovered file, and an unreadable file's result is its
\* read-error result
C1_OneResultPerFile ==
    (Returned /\ Len(batch.files_to_process) >= 1) =>
        /\ Len(returned) = Len(batch.files_to_process)
        /\ Len(returned_src) = Len(returned)
        /\ \A k \in 1..Len(batch.files_to_process) :
              LET f == batch.files_to_process[k]
                  J == {j \in 1..Len(returned_src) : returned_src[j] = f.path}
              IN  /\ Cardinality(J) = 1
                  /\ ~f.readable =>
                        \A j \in J : returned[j] = ReadErrorResult(f.path)

\* a batch of two files has returned: one could not be read, the other's
\* unit of work raised
C1_Witness ==
    /\ Returned
    /\ Len(batch.files_to_process) = 2
    /\ \E k \in 1..2 : ~batch.files_to_process[k].readable
    /\ \E i \in BatchTasks : tasks[i].pc = "raised"

\* C2: for a file that ran through the Rule Engine, original_errors is the
\* issue strings of the engine followed by the tool diagnostics,
\* fixes_applied is the fix strings of the engine plus the marker of a
\* successful tool, and neither list holds a string of the other kind
C2_ListsSeparateIssuesFromFixes ==
    \A i \in Processed :
        LET t == tasks[i]
        IN  /\ t.result.original_errors =
                   errors_found(t.content, t.language) \o t.shell_errors
            /\ t.result.fixes_applied =
                   rule_fixes_applied(t.content, t.language)
                   \o (IF t.shell_success THEN <<ExternalMarker>> ELSE << >>)
            /\ \A k \in 1..Len(t.result.fixes_applied) :
                   ~IsIssueString(t.result.fixes_applied[k])
            /\ \A k \in 1..Len(t.result.original_errors) :
                   ~IsFixString(t.result.original_errors[k])

\* C3: in every FixResult, success holds exactly when fixes_applied is not
\* empty or original_errors is empty
C3_SuccessInvariant ==
    \A r \in AllResults :
        r.success <=> (Len(r.fixes_applied) > 0 \/ Len(r.original_errors) = 0)

\* a batch has returned a result with fixes and success, and one without
C3_Witness ==
    /\ Returned
    /\ \E j, k \in 1..Len(returned) :
          /\ returned[j].success
          /\ Len(returned[j].fixes_applied) > 0
          /\ ~returned[k].success
          /\ Len(returned[k].original_errors) > 0

\* C4: the step in which fix_file_content returns a FixResult increments
\* files_processed by 1 and total_fixes by the length of its fixes_applied
C4_EveryResultIsCounted ==
    [][\A i \in 1..Len(tasks') :
          (tasks'[i].pc = "done" /\ (i > Len(tasks) \/ tasks[i].pc # "done"))
          => /\ stats'.files_processed = stats.files_processed + 1
             /\ stats'.total_fixes =
                    stats.total_fixes + Len(tasks'[i].result.fixes_applied)]_vars

\* C5: a file in which the Rule Engine finds no issue yields success
C5_CleanFileSucceeds ==
    \A i \in Processed :
        errors_found(tasks[i].content, tasks[i].language) = << >>
        => tasks[i].result.success

\* the rule matches of the file of task i: none when the engine did not run
RuleMatches(i) ==
    IF tasks[i].language = "unknown" THEN 0
    ELSE Len(errors_found(tasks[i].content, tasks[i].language))

\* C6 as stated: in every FixResult, original_errors has at most as many
\* entries as there were rule matches and tool diagnostic lines
C6_ErrorsBoundedEverywhere ==
    \A i \in 1..Len(tasks) :
        tasks[i].pc = "done" =>
            Len(tasks[i].result.original_errors)
                <= RuleMatches(i) + Len(tasks[i].shell_errors)

\* C6: in the FixResult of a file that ran through the Rule Engine,
\* original_errors has at most as many entries as there were rule matches
\* and tool diagnostic lines
C6_ErrorsBoundedWhenProcessed ==
    \A i \in Processed :
        Len(tasks[i].result.original_errors)
            <= RuleMatches(i) + Len(tasks[i].shell_errors)

\* a processed file with rule matches, fixes and tool diagnostics
C6_Witness ==
    \E i \in Processed :
        /\ RuleMatches(i) > 0
        /\ Len(rule_fixes_applied(tasks[i].content, tasks[i].language)) > 0
        /\ Len(tasks[i].shell_errors) > 0

\* position of the result of task i in the returned list
PosOf(i) == CHOOSE j \in 1..Len(returned_src) : returned_src[j] = tasks[i].file_path

\* C7 as stated: the returned list is ordered by completion
C7_OrderedByCompletion ==
    Returned =>
        \A a, b \in BatchTasks : CompletedBefore(a, b) => PosOf(a) < PosOf(b)

\* C7: the returned list holds the read-error results in discovery order,
\* then the results of the readable files in discovery order, whatever the
\* order of completion
C7_OrderedByDiscovery ==
    (Returned /\ Len(batch.files_to_process) >= 1) =>
        returned_src = Paths(Unreadable(batch.files_to_process))
                       \o Paths(Readable(batch.files_to_process))

\* a batch has returned whose second task completed before its first
C7_Witness ==
    /\ Returned
    /\ batch.ntasks = 2
    /\ \A i \in BatchTasks : tasks[i].pc = "done"
    /\ CompletedBefore(batch.first + 2, batch.first + 1)

\* one pass of the Rule Engine has no fix string in its list
NoFixRecorded(list) == \A k \in 1..Len(list) : ~IsFixString(list[k])

\* C8: the Rule Engine run on its own corrected output records no fix and
\* returns the text unchanged
C8_CorrectedOutputIsFixedPoint ==
    engine.passes >= 2 =>
        /\ NoFixRecorded(engine.list)
        /\ engine.content = engine.prev

\* C9: the Python line `if x > 0` comes back as `if x > 0:` with exactly
\* the issue "Line 1: Missing colon" and the fix "Fixed missing_colon on
\* line 1"
C9_MissingColonExample ==
    (engine.language = "python" /\ engine.passes = 1 /\ engine.prev = c_if_x)
    => /\ engine.content = c_if_x \o <<":">>
       /\ engine.list = <<IssueString(1, "missing_colon"),
                          FixString(1, "missing_colon")>>

\* C10: a call of fix_repository that discovers no file (missing root, or
\* nothing eligible under it) returns one FixResult with success false, no
\* fix and one entry in original_errors, creates no task and leaves the
\* statistics as they were
C10_NothingToProcess ==
    [][(batch'.n = batch.n + 1 /\ Len(batch'.files_to_process) = 0)
       => /\ batch'.pc = "returned"
          /\ Len(returned') = 1
          /\ ~returned'[1].success
          /\ returned'[1].fixes_applied = << >>
          /\ Len(returned'[1].original_errors) = 1
          /\ tasks' = tasks
          /\ stats' = stats]_vars

\* fix_repository has returned the sentinel of a root without eligible files
C10_Witness ==
    /\ Returned
    /\ batch.ntasks = 0
    /\ returned = <<NoFilesResult(RootPath)>>

\* C11: a batch whose root is one existing file with a supported extension
\* returns the FixResult of that file
C11_FileRootIsProcessed ==
    (Returned /\ batch.kind = "file") =>
        /\ Len(returned) = 1
        /\ returned[1].file_path = batch.root
        /\ returned[1].language = detect_language(batch.root, << >>)
        /\ returned[1] # NoFilesResult(batch.root)

\* the result the returned list holds for task i of the batch
ResultOf(i) == returned[Len(batch.results) + (i - batch.first)]

\* C12: when a unit of work of a batch raised, the batch still returns; the
\* unit that raised yields one FixResult with success false and one
\* "Processing error" entry, and every other unit yields the FixResult its
\* fix_file_content returned
C12_CrashIsContained ==
    (Returned /\ \E i \in BatchTasks : tasks[i].pc = "raised") =>
        /\ Len(returned) = Len(batch.results) + batch.ntasks
        /\ \A i \in BatchTasks :
              IF tasks[i].pc = "raised"
              THEN /\ ~ResultOf(i).success
                   /\ ResultOf(i).fixes_applied = << >>
                   /\ Len(ResultOf(i).original_errors) = 1
                   /\ ResultOf(i).original_errors[1][1] = "Processing error: "
              ELSE /\ tasks[i].pc = "done"
                   /\ ResultOf(i) = tasks[i].result
                   /\ ResultOf(i).file_path = tasks[i].file_path

\* a batch of two units has returned: one raised, the other succeeded
C12_Witness ==
    /\ Returned
    /\ batch.ntasks = 2
    /\ \E i, j \in BatchTasks :
          /\ tasks[i].pc = "raised"
          /\ tasks[j].pc = "done"
          /\ tasks[j].result.success
          /\ ResultOf(j) = tasks[j].result

RECURSIVE SumSeq(_)
SumSeq(q) == IF q = << >> THEN 0 ELSE q[1] + SumSeq(Tail(q))

Running == {i \in 1..Len(tasks) : tasks[i].pc = "waiting"}

\* C14: a temporary file exists only while an invocation of execute_tool
\* that uses its path has not returned: every invocation that has returned,
\* by whichever path, has left no file behind
C14_TempFileDeleted ==
    /\ \A f \in tempfiles : \E i \in Running : tasks[i].temp_file = f.path
    /\ ~InFlight => tempfiles = {}

\* the extension of a file name: what follows its last dot, the dot
\* included, when the dot neither starts nor ends the name
Extension(name) ==
    IF \E i \in 2..(Len(name) - 1) :
           name[i] = "." /\ \A j \in (i + 1)..Len(name) : name[j] # "."
    THEN LET i == CHOOSE k \in 2..(Len(name) - 1) :
                      name[k] = "." /\ \A j \in (k + 1)..Len(name) : name[j] # "."
         IN  Lower(SubSeq(name, i, Len(name)))
    ELSE << >>

\* the languages that reach the threshold on a text
Reached(content) ==
    {k \in 1..Len(ContentLanguages) :
        SignatureMatches(ContentLanguages[k], content) >= 2}

\* the reference of C15
ReferenceLanguage(file_path, content) ==
    IF Extension(file_path[Len(file_path)]) \in DOMAIN extension_map
    THEN extension_map[Extension(file_path[Len(file_path)])]
    ELSE IF content # << >> /\ Reached(content) # {}
    THEN ContentLanguages[CHOOSE k \in Reached(content) :
                              \A j \in Reached(content) : k <= j]
    ELSE "unknown"

\* C15: detect_language returns the language of the extension when the
\* table has it, whatever the content; otherwise the first of python,
\* javascript, go, rust, java with at least two signatures matching in the
\* content; otherwise "unknown"; and a second call returns the same
C15_DetectLanguageIsReference ==
    /\ ContentLanguages = <<"python", "javascript", "go", "rust", "java">>
    /\ detector.calls >= 1 =>
           detector.language =
               ReferenceLanguage(detector.file_path, detector.content)
    /\ detector.calls >= 2 => detector.language = detector.prev

\* detect_language has been called twice on a file name with a known
\* extension and a text that carries two signatures of another language
C15_Witness ==
    /\ detector.calls = 2
    /\ Extension(detector.file_path[1]) \in DOMAIN extension_map
    /\ Reached(detector.content) # {}
    /\ ContentLanguages[CHOOSE k \in Reached(detector.content) : TRUE]
           # detector.language

\* the units of work of the batch that have started and not completed
Started == {i \in BatchTasks : tasks[i].pc = "waiting"}

\* C16: during a batch over N files, at most min(8, N) files have their
\* processing started and not completed
C16_BoundedConcurrency ==
    batch.pc = "gather" =>
        Cardinality(Started) <= max_workers(batch.files_to_process)

\* C17: two invocations of execute_tool in flight at the same time never
\* use the same temporary file path
C17_TempPathsDistinct ==
    \A i, j \in Running : i # j => tasks[i].temp_file # tasks[j].temp_file

\* C18: no child process started by execute_tool is still running once the
\* invocation that started it has returned, its timeout included
C18_NoChildOutlivesInvocation ==
    \A p \in 1..Len(procs) :
        procs[p].running => \E i \in Running : tasks[i].proc = p

\* the fixes of the first n invocations that went through the update step
RECURSIVE SumFixes(_)
SumFixes(n) ==
    IF n = 0 THEN 0
    ELSE SumFixes(n - 1)
         + (IF n \in Processed THEN Len(tasks[n].result.fixes_applied) ELSE 0)

\* C19: whatever the interleaving of the units of work, files_processed is
\* the number of invocations that went through the statistics update,
\* total_fixes is the sum of the lengths of their fixes_applied, and in
\* every state any unit of work can observe success_rate and
\* avg_processing_time are those of the same update as the counters
C19_NoLostUpdate ==
    /\ stats.files_processed = Cardinality(Processed)
    /\ stats.total_fixes = SumFixes(Len(tasks))
    /\ Len(samples) = stats.files_processed
    /\ stats.files_processed >= 1 =>
          /\ stats.success_rate =
                 Frac(stats.total_fixes * 100, stats.files_processed)
          /\ stats.avg_processing_time =
                 Frac(SumSeq(samples), Len(samples))

\* two units of work of a batch were waiting for their formatters at the
\* same time, the second completed first, and both went through the update
C19_Witness ==
    /\ batch.ntasks = 2
    /\ \A i \in BatchTasks : i \in Processed /\ tasks[i].proc # 0
    /\ CompletedBefore(batch.first + 2, batch.first + 1)
    /\ stats.files_processed >= 2
    /\ stats.total_fixes >= 1

\* C20: in the step in which fix_repository reads the discovered files,
\* every file whose read fails gets one FixResult with success false,
\* language "unknown" and a "Cannot read file" issue and no task, every
\* other file gets its task, and the statistics stay as they were
C20_ReadFailureIsContained ==
    [][(batch'.n = batch.n + 1 /\ Len(batch'.files_to_process) >= 1) =>
         LET files == batch'.files_to_process
             bad == {k \in 1..Len(files) : ~files[k].readable}
             good == {k \in 1..Len(files) : files[k].readable}
             new == (Len(tasks) + 1)..Len(tasks')
         IN  /\ Len(batch'.results) = Cardinality(bad)
             /\ \A k \in bad : \E j \in 1..Len(batch'.results) :
                   LET r == batch'.results[j]
                   IN  /\ r.file_path = files[k].path
                       /\ ~r.success
                       /\ r.language = "unknown"
                       /\ r.fixes_applied = << >>
                       /\ Len(r.original_errors) = 1
                       /\ r.original_errors[1][1] = "Cannot read file: "
             /\ Len(tasks') = Len(tasks) + Cardinality(good)
             /\ \A i \in new : \E k \in good :
                   tasks'[i].file_path = files[k].path
             /\ \A k \in good : \E i \in new :
                   /\ tasks'[i].file_path = files[k].path
                   /\ tasks'[i].content = files[k].content
             /\ stats' = stats]_vars

\* a batch has returned whose first file could not be read and whose
\* second file was processed after it
C20_Witness ==
    /\ Returned
    /\ Len(batch.files_to_process) = 2
    /\ ~batch.files_to_process[1].readable
    /\ batch.files_to_process[2].readable
    /\ returned[1] = ReadErrorResult(batch.files_to_process[1].path)
    /\ batch.ntasks = 1
    /\ tasks[batch.first + 1].pc = "done"
    /\ returned[2] = tasks[batch.first + 1].result
    /\ returned[2].success

\* the invocations of fix_file_content that call the Rule Engine in a step:
\* those whose language is set by it to a known one
Analysed(before, after) ==
    {i \in 1..Len(after) :
        /\ after[i].language \notin {"", "unknown"}
        /\ (i > Len(before) \/ before[i].language = "")}

\* C21: the cache holds at most one entry per (language, content), only for
\* languages with a rule set, and no step removes or changes an entry; a
\* call of the Rule Engine for such a language returns the entry the cache
\* held, leaving the cache as it was, or else the result it computes, which
\* the cache then holds; a call for a language without a rule set returns
\* the empty list and the content unchanged and adds no entry
C21_CacheComputesOnce ==
    [][/\ pattern_cache \subseteq pattern_cache'
       /\ \A e1, e2 \in pattern_cache' :
             (e1.language = e2.language /\ e1.content = e2.content)
             => e1 = e2
       /\ \A e \in pattern_cache' : e.language \in RuleLanguages
       /\ \A i \in Analysed(tasks, tasks') :
             LET t == tasks'[i]
                 got == [list |-> t.analysis_result,
                         content |-> t.corrected_content]
             IN  IF t.language \in RuleLanguages
                 THEN /\ [language |-> t.language, content |-> t.content,
                          result |-> got] \in pattern_cache'
                      /\ got = analyze_result(t.content, t.language)
                      /\ CacheHit(pattern_cache, t.content, t.language)
                            => pattern_cache' = pattern_cache
                 ELSE /\ got = [list |-> << >>, content |-> t.content]
                      /\ pattern_cache' = pattern_cache]_vars

\* two units of work of a batch with the same language and content are
\* waiting for their formatters, and the cache holds the one entry
C21_Witness ==
    /\ Cardinality(pattern_cache) = 1
    /\ \E i, j \in BatchTasks :
          /\ i # j
          /\ tasks[i].pc = "waiting"
          /\ tasks[j].pc = "waiting"
          /\ tasks[i].language = tasks[j].language
          /\ tasks[i].content = tasks[j].content
          /\ tasks[i].analysis_result = tasks[j].analysis_result
          /\ tasks[i].analysis_result # << >>

Occurrences(list, x) == Cardinality({j \in 1..Len(list) : list[j] = x})

\* the positions, in rule order, of the rules that match `line` as read and
\* whose transform of it differs from it
Changing(language, line) ==
    {n \in 1..Len(fix_patterns(language)) :
        /\ Pattern(fix_patterns(language)[n], line)
        /\ Fix(fix_patterns(language)[n], line) # line}

Last(S) == CHOOSE n \in S : \A m \in S : m <= n

\* C22: after a pass of the Rule Engine, line k of the returned content is
\* the line as read when no rule changes it, and otherwise the transform of
\* the line as read by the last rule, in rule order, that matches it and
\* changes it; the list holds "Line k: <description>" once for each rule
\* that matches the line as read and "Fixed <rule> on line k" once for each
\* rule that also changes it, and for no other rule
C22_RulesSeeOriginalLine ==
    engine.passes >= 1 =>
        LET lines == Split(engine.prev)
            out == Split(engine.content)
            rules == fix_patterns(engine.language)
        IN  /\ Len(out) = Len(lines)
            /\ \A k \in 1..Len(lines) :
                  LET ch == Changing(engine.language, lines[k])
                  IN  /\ out[k] = IF ch = {} THEN lines[k]
                                  ELSE Fix(rules[Last(ch)], lines[k])
                      /\ \A n \in 1..Len(rules) :
                            /\ Occurrences(engine.list,
                                           IssueString(k, rules[n]))
                                 = IF Pattern(rules[n], lines[k])
                                   THEN 1 ELSE 0
                            /\ Occurrences(engine.list,
                                           FixString(k, rules[n]))
                                 = IF n \in ch THEN 1 ELSE 0

\* a pass over the Python text `if x > 0`, which missing_colon and
\* indentation both change: the indented line without the colon comes
\* back, with a fix entry for each of the two rules
C22_Witness ==
    /\ engine.passes = 1
    /\ engine.language = "python"
    /\ engine.prev = c_if_x
    /\ Cardinality(Changing("python", c_if_x)) = 2
    /\ engine.content = Indent4 \o c_if_x
    /\ engine.content # missing_colon_fix(c_if_x)
    /\ Occurrences(engine.list, FixString(1, "missing_colon")) = 1
    /\ Occurrences(engine.list, FixString(1, "indentation")) = 1

====
